---- MODULE Spec2Model ----
(***************************************************************************)
(* Dependency pruning of odoo-dependency-trimmer.                           *)
(*                                                                         *)
(*   _minimum_dep_tree / _update_deps  (create_dependency.py)               *)
(*   _min_spanning_tree / _first_path  (tools/auto_clean_dependencies.py)   *)
(*                                                                         *)
(* The recursive functions are run one loop iteration at a time on an      *)
(* explicit call stack, so that a recursion that never returns is a        *)
(* behaviour of the model (it ends in pc = "RecursionError", the exception *)
(* the interpreter raises when the call stack passes its limit).           *)
(***************************************************************************)
EXTENDS Integers, Sequences, FiniteSets, TLC

\* Module names the graphs and the module lists are drawn from.
Names == {"a", "b", "c"}

\* Longest module list given to the two algorithms.
MaxLen == 3

\* Call-stack limit of the interpreter (sys.getrecursionlimit(), 1000 by
\* default).  Any value above Cardinality(Names) gives the same verdicts: a
\* stack deeper than the number of names holds some module twice, and a
\* module that is entered again below itself is entered again without end.
MaxDepth == 4

VARIABLES
    dep_tree,    \* the graph: module name -> its dependencies, in iteration order
    modules,     \* the module list handed to the algorithm
    used,        \* _minimum_dep_tree: modules kept
    met,         \* _minimum_dep_tree: modules visited
    idx,         \* position of `for module in modules`
    stack,       \* call stack of the recursion: <<[module, k]>>, k the loop position
    pc,          \* control state
    run,         \* 1: reduce(G, M);  2: reduce(G, R) on the result of run 1;
                 \* 3: reduce(G, M) again, everything iterated in another order
    first,       \* result of run 1
    i, j,        \* _min_spanning_tree: the pair loop
    all_paths,   \* _min_spanning_tree: paths found so far
    rtn,         \* _min_spanning_tree: the returned mapping
    given        \* the graph and the module list of the first call

vars == <<dep_tree, modules, used, met, idx, stack, pc, run, first, i, j, all_paths, rtn,
          given>>

reduceVars == <<used, met, idx, run, first, given>>
forestVars == <<i, j, all_paths, rtn>>

----------------------------------------------------------------------------
\* Inputs

\* Every order in which the elements of S can be iterated.
Orders(S) ==
    { s \in [1..Cardinality(S) -> S] : \A x, y \in DOMAIN s : s[x] = s[y] => x = y }

AllOrders == UNION { Orders(S) : S \in SUBSET Names }

\* A graph is a dict whose keys are some of the names; each value is a set (or
\* a JSON list) of names, modelled by the order in which it is iterated.
Graphs == UNION { [K -> AllOrders] : K \in SUBSET Names }

\* Module lists: any names, duplicates allowed, unknown names allowed.
ModuleLists == UNION { [1..n -> Names] : n \in 0..MaxLen }

\* deps.get(module, [])
Get(deps, module) == IF module \in DOMAIN deps THEN deps[module] ELSE <<>>

Range(s) == { s[x] : x \in DOMAIN s }

Top == stack[Len(stack)]

\* The caller's frame moves on to its next loop iteration.
Advance(st) == [st EXCEPT ![Len(st)].k = @ + 1]

\* A call: the caller's loop position moves on, the callee's frame is pushed.
Push(st, module) ==
    (IF st = <<>> THEN st ELSE Advance(st)) \o <<[module |-> module, k |-> 1]>>

Pop(st) == SubSeq(st, 1, Len(st) - 1)

----------------------------------------------------------------------------
\* _minimum_dep_tree(dep_tree, modules)

\* A slip of the test: a module already met is not recognised as covered.
not_covered_ignores_met(module) == module \notin used

\* `if module not in used and module not in met:`
not_covered(module) == module \notin used /\ module \notin met

\* The test is false: next module.
minimum_dep_tree_skip ==
    /\ pc = "loop"
    /\ idx <= Len(modules)
    /\ ~not_covered(modules[idx])
    /\ idx' = idx + 1
    /\ UNCHANGED <<dep_tree, modules, used, met, stack, pc, run, first, forestVars, given>>

\* used.add(module); _update_deps(dep_tree, module, met, used)  -- the call
\* starts with met.add(module).
minimum_dep_tree_add ==
    /\ pc = "loop"
    /\ idx <= Len(modules)
    /\ not_covered(modules[idx])
    /\ used' = used \cup {modules[idx]}
    /\ met' = met \cup {modules[idx]}
    /\ stack' = Push(stack, modules[idx])
    /\ pc' = "update"
    /\ idx' = idx + 1
    /\ UNCHANGED <<dep_tree, modules, run, first, forestVars, given>>

\* return used
minimum_dep_tree_return ==
    /\ pc = "loop"
    /\ idx > Len(modules)
    /\ pc' = "done"
    /\ first' = IF run = 1 THEN used ELSE first
    /\ UNCHANGED <<dep_tree, modules, used, met, idx, stack, run, forestVars, given>>

\* A slip of the branch: the dependency found in `used` is left there.
update_deps_remove_forgotten ==
    /\ pc = "update"
    /\ Top.k <= Len(Get(dep_tree, Top.module))
    /\ Get(dep_tree, Top.module)[Top.k] \in used
    /\ stack' = Advance(stack)
    /\ UNCHANGED <<dep_tree, modules, used, met, idx, pc, run, first, forestVars, given>>

\* _update_deps: `if dependency in used: used.remove(dependency)`
update_deps_remove ==
    /\ pc = "update"
    /\ Top.k <= Len(Get(dep_tree, Top.module))
    /\ Get(dep_tree, Top.module)[Top.k] \in used
    /\ used' = used \ {Get(dep_tree, Top.module)[Top.k]}
    /\ stack' = Advance(stack)
    /\ UNCHANGED <<dep_tree, modules, met, idx, pc, run, first, forestVars, given>>

\* A slip of the call: the dependency is recorded in `used` as well as in `met`.
update_deps_call_marks_used ==
    /\ pc = "update"
    /\ Top.k <= Len(Get(dep_tree, Top.module))
    /\ Get(dep_tree, Top.module)[Top.k] \notin used
    /\ Len(stack) < MaxDepth
    /\ met' = met \cup {Get(dep_tree, Top.module)[Top.k]}
    /\ used' = used \cup {Get(dep_tree, Top.module)[Top.k]}
    /\ stack' = Push(stack, Get(dep_tree, Top.module)[Top.k])
    /\ UNCHANGED <<dep_tree, modules, idx, pc, run, first, forestVars, given>>

\* _update_deps: `else: _update_deps(deps, dependency, met, used)`, whose first
\* statement is met.add(dependency).
update_deps_call ==
    /\ pc = "update"
    /\ Top.k <= Len(Get(dep_tree, Top.module))
    /\ Get(dep_tree, Top.module)[Top.k] \notin used
    /\ Len(stack) < MaxDepth
    /\ met' = met \cup {Get(dep_tree, Top.module)[Top.k]}
    /\ stack' = Push(stack, Get(dep_tree, Top.module)[Top.k])
    /\ UNCHANGED <<dep_tree, modules, used, idx, pc, run, first, forestVars, given>>

\* The same call when the call stack is full: the interpreter raises
\* RecursionError, which nothing catches.
update_deps_overflow ==
    /\ pc = "update"
    /\ Top.k <= Len(Get(dep_tree, Top.module))
    /\ Get(dep_tree, Top.module)[Top.k] \notin used
    /\ Len(stack) >= MaxDepth
    /\ pc' = "RecursionError"
    /\ UNCHANGED <<dep_tree, modules, used, met, idx, stack, run, first, forestVars, given>>

\* _update_deps: the for loop is exhausted, the call returns.
update_deps_return ==
    /\ pc = "update"
    /\ Top.k > Len(Get(dep_tree, Top.module))
    /\ stack' = Pop(stack)
    /\ pc' = IF Len(stack) = 1 THEN "loop" ELSE "update"
    /\ UNCHANGED <<dep_tree, modules, used, met, idx, run, first, forestVars, given>>

\* reduce(G, R): the result of the first run is reduced again, its elements
\* fed in any order (a Python set has no order of its own).
reduce_again ==
    /\ pc = "done"
    /\ run = 1
    /\ \E order \in Orders(used) : modules' = order
    /\ used' = {}
    /\ met' = {}
    /\ idx' = 1
    /\ run' = 2
    /\ pc' = "loop"
    /\ UNCHANGED <<dep_tree, stack, first, forestVars, given>>

InitReduce ==
    /\ dep_tree \in Graphs
    /\ modules \in ModuleLists
    /\ used = {}
    /\ met = {}
    /\ idx = 1
    /\ stack = <<>>
    /\ pc = "loop"
    /\ run = 1
    /\ first = {}
    /\ i = 1
    /\ j = 1
    /\ all_paths = <<>>
    /\ rtn = <<>>
    /\ given = [dep_tree |-> dep_tree, modules |-> modules]

NextReduce ==
    \/ minimum_dep_tree_skip
    \/ minimum_dep_tree_add
    \/ minimum_dep_tree_return
    \/ update_deps_remove
    \/ update_deps_call
    \/ update_deps_overflow
    \/ update_deps_return
    \/ reduce_again

SpecReduce == InitReduce /\ [][NextReduce]_vars

----------------------------------------------------------------------------
\* The same input in another order: main builds the module list from a set
\* (`deps = {x.strip() for x in ...}`) and _read_deps stores every dependency
\* list as a set, so neither has an iteration order the caller controls.

\* The lists that hold the elements of ms, each as often, in any order.
OtherOrders(ms) ==
    { [x \in DOMAIN ms |-> ms[p[x]]] : p \in Orders(DOMAIN ms) }

\* The graphs with the edges of G, each dependency set iterated in any order.
Reorderings(G) ==
    { g \in [DOMAIN G -> AllOrders] : \A key \in DOMAIN G : Range(g[key]) = Range(G[key]) }

\* No module of G depends on itself, directly or through other modules.
NoCycle(G) ==
    \A m \in DOMAIN G :
        LET RECURSIVE reach(_)
            reach(S) == LET T == S \cup UNION { Range(Get(G, x)) : x \in S }
                        IN  IF T = S THEN S ELSE reach(T)
        IN  m \notin reach(Range(G[m]))

\* _minimum_dep_tree is called again on the same graph and the same modules,
\* the modules and every dependency set iterated in any other order.  The
\* comparison is made for the graphs without a cycle.
minimum_dep_tree_other_order ==
    /\ pc = "done"
    /\ run = 1
    /\ NoCycle(dep_tree)
    /\ modules' \in OtherOrders(modules)
    /\ dep_tree' \in Reorderings(dep_tree)
    /\ used' = {}
    /\ met' = {}
    /\ idx' = 1
    /\ run' = 3
    /\ pc' = "loop"
    /\ UNCHANGED <<stack, first, forestVars, given>>

NextOrder ==
    \/ minimum_dep_tree_skip
    \/ minimum_dep_tree_add
    \/ minimum_dep_tree_return
    \/ update_deps_remove
    \/ update_deps_call
    \/ update_deps_overflow
    \/ update_deps_return
    \/ minimum_dep_tree_other_order

SpecOrder == InitReduce /\ [][NextOrder]_vars

----------------------------------------------------------------------------
\* _min_spanning_tree(dependency_hierarchy, modules) and _first_path

\* The path a call stack stands for: current_path of the innermost call.
current_path(st) == [x \in 1..Len(st) |-> st[x].module]

\* A slip of the path: the modules between start and dep are left out.
next_path_direct(st, dep) == <<st[1].module, dep>>

\* `next_path = current_path + [dep]` returned when `dep == end`.
next_path(st, dep) == current_path(st) \o <<dep>>

\* `for j in range(len(module_list))`: `if i != j` is false.
min_spanning_tree_same_index ==
    /\ pc = "pairs"
    /\ i <= Len(modules) /\ j <= Len(modules)
    /\ i = j
    /\ j' = j + 1
    /\ UNCHANGED <<dep_tree, modules, stack, pc, i, all_paths, rtn, reduceVars>>

\* _first_path(h, start, end) with start == end (a name listed twice):
\* `return current_path`, which is [start]; the path is appended.
first_path_same ==
    /\ pc = "pairs"
    /\ i <= Len(modules) /\ j <= Len(modules)
    /\ i # j
    /\ modules[i] = modules[j]
    /\ all_paths' = Append(all_paths, <<modules[i]>>)
    /\ j' = j + 1
    /\ UNCHANGED <<dep_tree, modules, stack, pc, i, rtn, reduceVars>>

\* _first_path(h, module_list[i], module_list[j]) is entered.
first_path_enter ==
    /\ pc = "pairs"
    /\ i <= Len(modules) /\ j <= Len(modules)
    /\ i # j
    /\ modules[i] # modules[j]
    /\ stack' = Push(stack, modules[i])
    /\ pc' = "path"
    /\ UNCHANGED <<dep_tree, modules, i, j, all_paths, rtn, reduceVars>>

\* `if dep == end: return next_path`; every caller returns it in turn and
\* _min_spanning_tree appends it.
first_path_found ==
    /\ pc = "path"
    /\ Top.k <= Len(Get(dep_tree, Top.module))
    /\ Get(dep_tree, Top.module)[Top.k] = modules[j]
    /\ all_paths' = Append(all_paths, next_path(stack, modules[j]))
    /\ stack' = <<>>
    /\ pc' = "pairs"
    /\ j' = j + 1
    /\ UNCHANGED <<dep_tree, modules, i, rtn, reduceVars>>

\* `min_path = _first_path(hierarchy, dep, end, next_path)`
first_path_call ==
    /\ pc = "path"
    /\ Top.k <= Len(Get(dep_tree, Top.module))
    /\ Get(dep_tree, Top.module)[Top.k] # modules[j]
    /\ Len(stack) < MaxDepth
    /\ stack' = Push(stack, Get(dep_tree, Top.module)[Top.k])
    /\ UNCHANGED <<dep_tree, modules, pc, i, j, all_paths, rtn, reduceVars>>

\* The same call when the call stack is full: RecursionError.
first_path_overflow ==
    /\ pc = "path"
    /\ Top.k <= Len(Get(dep_tree, Top.module))
    /\ Get(dep_tree, Top.module)[Top.k] # modules[j]
    /\ Len(stack) >= MaxDepth
    /\ pc' = "RecursionError"
    /\ UNCHANGED <<dep_tree, modules, stack, i, j, all_paths, rtn, reduceVars>>

\* The for loop is exhausted: `return None`.  In the caller `if min_path:` is
\* false and its loop goes on; in _min_spanning_tree the pair is skipped.
first_path_none ==
    /\ pc = "path"
    /\ Top.k > Len(Get(dep_tree, Top.module))
    /\ stack' = Pop(stack)
    /\ pc' = IF Len(stack) = 1 THEN "pairs" ELSE "path"
    /\ j' = IF Len(stack) = 1 THEN j + 1 ELSE j
    /\ UNCHANGED <<dep_tree, modules, i, all_paths, rtn, reduceVars>>

\* `for i in range(len(module_list))`: the inner loop is exhausted.
min_spanning_tree_next_i ==
    /\ pc = "pairs"
    /\ i <= Len(modules) /\ j > Len(modules)
    /\ i' = i + 1
    /\ j' = 1
    /\ UNCHANGED <<dep_tree, modules, stack, pc, all_paths, rtn, reduceVars>>

\* A slip of the merge: every step is recorded in both directions, as for an
\* undirected graph.
path_steps_undirected(paths) ==
    UNION { { <<paths[p][x], paths[p][x + 1]>> : x \in 1..(Len(paths[p]) - 1) }
            \cup { <<paths[p][x + 1], paths[p][x]>> : x \in 1..(Len(paths[p]) - 1) } :
            p \in DOMAIN paths }

\* The steps (min_path[i], min_path[i + 1]) of every path of all_paths.
path_steps(paths) ==
    UNION { { <<paths[p][x], paths[p][x + 1]>> : x \in 1..(Len(paths[p]) - 1) } :
            p \in DOMAIN paths }

\* rtn = defaultdict(set); rtn.update({x: set() for x in modules});
\* rtn[min_path[i]].add(min_path[i + 1]) for every step of every path.
merge_paths(ms, paths) ==
    [key \in Range(ms) \cup { e[1] : e \in path_steps(paths) } |->
        { e[2] : e \in { e \in path_steps(paths) : e[1] = key } }]

\* Both loops are exhausted: the paths are merged and rtn is returned.
min_spanning_tree_return ==
    /\ pc = "pairs"
    /\ i > Len(modules)
    /\ rtn' = merge_paths(modules, all_paths)
    /\ pc' = "returned"
    /\ UNCHANGED <<dep_tree, modules, stack, i, j, all_paths, reduceVars>>

\* A slip of the comprehension: the keys without children are taken for the
\* keys that are nobody's child.
roots_childless(pruned) == { x1 \in DOMAIN pruned : pruned[x1] = {} }

\* main: result = {x1 for x1 in pruned if not any(x1 in values for values in pruned.values())}
roots(pruned) == { x1 \in DOMAIN pruned : \A key \in DOMAIN pruned : x1 \notin pruned[key] }

InitForest ==
    /\ dep_tree \in Graphs
    /\ modules \in ModuleLists
    /\ used = {}
    /\ met = {}
    /\ idx = 1
    /\ stack = <<>>
    /\ pc = "pairs"
    /\ run = 1
    /\ first = {}
    /\ i = 1
    /\ j = 1
    /\ all_paths = <<>>
    /\ rtn = <<>>
    /\ given = [dep_tree |-> dep_tree, modules |-> modules]

NextForest ==
    \/ min_spanning_tree_same_index
    \/ first_path_same
    \/ first_path_enter
    \/ first_path_found
    \/ first_path_call
    \/ first_path_overflow
    \/ first_path_none
    \/ min_spanning_tree_next_i
    \/ min_spanning_tree_return

SpecForest == InitForest /\ [][NextForest]_vars

----------------------------------------------------------------------------
\* _simplify_dependencies(dependency_tree, modules, show_tree=True): both
\* prunings on the same graph and the same module list.

\* pruned = _minimum_dep_tree(...) has returned;
\* `if show_tree: _min_spanning_tree(dependency_tree, modules)` is entered.
simplify_dependencies_show_tree ==
    /\ pc = "done"
    /\ run = 1
    /\ pc' = "pairs"
    /\ UNCHANGED <<dep_tree, modules, stack, reduceVars, forestVars>>

NextBoth ==
    \/ minimum_dep_tree_skip
    \/ minimum_dep_tree_add
    \/ minimum_dep_tree_return
    \/ update_deps_remove
    \/ update_deps_call
    \/ update_deps_overflow
    \/ update_deps_return
    \/ simplify_dependencies_show_tree
    \/ min_spanning_tree_same_index
    \/ first_path_same
    \/ first_path_enter
    \/ first_path_found
    \/ first_path_call
    \/ first_path_overflow
    \/ first_path_none
    \/ min_spanning_tree_next_i
    \/ min_spanning_tree_return

SpecBoth == InitReduce /\ [][NextBoth]_vars

----------------------------------------------------------------------------
\* Reachability, as the properties speak of it

\* The edges of a graph whose values are iteration orders.
GraphEdges(G) == UNION { { <<m, d>> : d \in Range(G[m]) } : m \in DOMAIN G }

\* The edges of a mapping whose values are sets (the forest).
ForestEdges(F) == UNION { { <<p, c>> : c \in F[p] } : p \in DOMAIN F }

RECURSIVE Closure(_, _)
\* S and everything reachable from S along the edges E.
Closure(E, S) ==
    LET T == S \cup { e[2] : e \in { e \in E : e[1] \in S } }
    IN  IF T = S THEN S ELSE Closure(E, T)

\* Everything reachable from m by one edge or more.
Descendants(E, m) == Closure(E, { e[2] : e \in { e \in E : e[1] = m } })

Acyclic(E) == \A e \in E : e[1] \notin Descendants(E, e[1])

Returned == pc = "done" /\ run = 1

----------------------------------------------------------------------------
\* Properties of _minimum_dep_tree

\* C1: when reduce(G, M) returns R, the modules of R together with all their
\* descendants are exactly the modules of M together with all their
\* descendants, on every graph, cyclic ones included.
ClosureEquivalence ==
    Returned => Closure(GraphEdges(dep_tree), used)
                    = Closure(GraphEdges(dep_tree), Range(modules))

\* C2: reduce terminates on every finite graph and every list of names: the
\* recursion of _update_deps never exhausts the call stack.
ReduceTerminates == run = 1 => pc # "RecursionError"

\* C3: when the loop over M has finished, no module left in `used` is a
\* descendant of another module left in `used`.
MinimalCover ==
    Returned =>
        \A r1, r2 \in used :
            r1 # r2 => r2 \notin Descendants(GraphEdges(dep_tree), r1)

\* A run that returned two modules after dropping a third one, a descendant of
\* one of the two.
MinimalCoverWitness ==
    /\ Returned
    /\ Cardinality(used) >= 2
    /\ \E r \in used : \E m \in Range(modules) \ used :
          m \in Descendants(GraphEdges(dep_tree), r)

\* C4: at every step `used` holds only names taken from M, never a name that
\* appears only as a dependency in G.
UsedSubsetOfModules == used \subseteq Range(modules)

\* A dependency that is not in M has been visited while a module is kept.
UsedSubsetWitness ==
    /\ run = 1
    /\ pc = "update"
    /\ used # {}
    /\ met \ Range(modules) # {}

\* C5: with R = reduce(G, M), reduce(G, R) terminates and returns exactly R,
\* in whatever order the elements of R are fed in.
Idempotent ==
    run = 2 => /\ pc # "RecursionError"
               /\ pc = "done" => used = first

\* The second run has returned a result of two modules, one of which has
\* dependencies of its own.
IdempotentWitness ==
    /\ run = 2
    /\ pc = "done"
    /\ Cardinality(first) >= 2
    /\ \E r \in first : Get(dep_tree, r) # <<>>

\* C6: when the modules of M lie on a common cycle of G, reduce keeps the one
\* that comes first in M and absorbs the others.
FirstSeenWins ==
    ( /\ Returned
      /\ Len(modules) >= 2
      /\ \A x, y \in Range(modules) : y \in Descendants(GraphEdges(dep_tree), x) )
    => used = {modules[1]}

----------------------------------------------------------------------------
\* Properties of _min_spanning_tree

\* C7: the path search terminates for every ordered pair on every finite
\* graph, cyclic ones included, so that the forest is always built.
ForestTotal == pc # "RecursionError"

\* C8: every parent -> child pair of the returned mapping is an edge of G.
ForestEdgeValidity ==
    pc = "returned" => ForestEdges(rtn) \subseteq GraphEdges(dep_tree)

\* A mapping was returned that holds a path through a module outside `nodes`.
ForestEdgeWitness ==
    /\ pc = "returned"
    /\ \E p \in DOMAIN all_paths :
          /\ Len(all_paths[p]) >= 3
          /\ all_paths[p][2] \notin Range(modules)

\* C9: every requested node is a key of the returned mapping and is a root
\* of it or a descendant of one of its roots.
ForestCoverage ==
    pc = "returned" =>
        \A n \in Range(modules) :
            /\ n \in DOMAIN rtn
            /\ \/ n \in roots(rtn)
               \/ \E r \in roots(rtn) : n \in Descendants(ForestEdges(rtn), r)

\* C10: in the returned mapping every node is a child of at most one parent
\* and no node is its own ancestor.
ForestOfTrees ==
    pc = "returned" =>
        /\ \A e1, e2 \in ForestEdges(rtn) : e1[2] = e2[2] => e1[1] = e2[1]
        /\ Acyclic(ForestEdges(rtn))

\* C10, as amended: the returned mapping is a subgraph of G and not a forest:
\* a node may be a child of several parents, and a node is its own ancestor in
\* the mapping only when it lies on a cycle of G.
ForestCyclesAreGraphCycles ==
    pc = "returned" =>
        \A n \in DOMAIN rtn :
            n \in Descendants(ForestEdges(rtn), n)
                => n \in Descendants(GraphEdges(dep_tree), n)

\* On an acyclic graph a mapping was returned in which a node has two parents.
ForestOfTreesWitness ==
    /\ pc = "returned"
    /\ Acyclic(GraphEdges(dep_tree))
    /\ \E e1, e2 \in ForestEdges(rtn) : e1[2] = e2[2] /\ e1[1] # e2[1]

----------------------------------------------------------------------------
\* The two prunings compared

\* C11: on an acyclic graph the roots of the mapping built by
\* _min_spanning_tree over M (the keys that are in no child set) are exactly
\* the modules _minimum_dep_tree(G, M) returns.
RootsAreMinimumDepTree ==
    (pc = "returned" /\ Acyclic(GraphEdges(dep_tree))) => roots(rtn) = first

\* On an acyclic graph both prunings have returned, a listed module was pruned
\* and a path of the mapping runs through a module that is not listed.
RootsAreMinimumDepTreeWitness ==
    /\ pc = "returned"
    /\ Acyclic(GraphEdges(dep_tree))
    /\ first # {}
    /\ first # Range(modules)
    /\ DOMAIN rtn # Range(modules)

\* C12: on an acyclic graph the result of _minimum_dep_tree depends neither on
\* the order in which the modules are processed nor on the order in which the
\* dependencies of a node are iterated.
OrderIndependent ==
    (run = 3 /\ pc = "done" /\ Acyclic(GraphEdges(dep_tree))) => used = first

\* On an acyclic graph the second call has returned after processing the
\* modules in another order than the first call and after iterating the
\* dependencies of a visited module in another order, and a listed module was
\* pruned.
OrderIndependentWitness ==
    /\ run = 3
    /\ pc = "done"
    /\ Acyclic(GraphEdges(dep_tree))
    /\ modules # given.modules
    /\ \E m \in met : Get(dep_tree, m) # Get(given.dep_tree, m)
    /\ first # {}
    /\ first # Range(modules)

====
